---- MODULE Spec2Model ----
(***************************************************************************)
(* A model of the qaapp web server: the bootstrap of the sqlite store      *)
(* (createDatabase, createSampleData), the routing set up by main, and the *)
(* request handler serveTemplate.                                          *)
(*                                                                         *)
(* Strings that the code inspects character by character (request paths,   *)
(* template names, template paths) are sequences of one-character strings. *)
(***************************************************************************)
EXTENDS Integers, Sequences, FiniteSets, TLC

\* ------------------------------------------------------------------ bounds
\* longest request path, in characters
MaxLen == 5
\* number of requests that can be in flight at the same time
NumReqs == 2
\* number of process starts
MaxStarts == 4

\* ----------------------------------------------------------------- strings
Chars == {"/", ".", "a"}

Slash == <<"/">>
Dot == <<".">>
DotDot == <<".", ".">>

\* "templates", the template directory of serveTemplate
Templates == <<"t", "e", "m", "p", "l", "a", "t", "e", "s">>
\* "index.html"
IndexHtml == <<"i", "n", "d", "e", "x", ".", "h", "t", "m", "l">>
\* "templates/footer.gohtml"
FooterPath == Templates \o Slash \o <<"f", "o", "o", "t", "e", "r", ".", "g", "o", "h", "t", "m", "l">>
\* "templates/header.gohtml"
HeaderPath == Templates \o Slash \o <<"h", "e", "a", "d", "e", "r", ".", "g", "o", "h", "t", "m", "l">>

\* every string over Chars of length at most MaxLen
Paths == UNION {[1..n -> Chars] : n \in 0..MaxLen}

\* ------------------------------------------------- path/filepath (unix)
RECURSIVE StripTrailingSlashes(_)
StripTrailingSlashes(s) ==
  IF Len(s) > 0 /\ s[Len(s)] = "/"
  THEN StripTrailingSlashes(SubSeq(s, 1, Len(s) - 1))
  ELSE s

\* index of the last "/" of s, 0 when there is none
LastSlash(s) ==
  LET I == {i \in 1..Len(s) : s[i] = "/"}
  IN IF I = {} THEN 0 ELSE CHOOSE i \in I : \A j \in I : j <= i

\* filepath.Base without the removal of trailing slashes
BaseNoStrip(fpath) ==
  IF fpath = <<>> THEN Dot
  ELSE LET t == SubSeq(fpath, LastSlash(fpath) + 1, Len(fpath))
       IN IF t = <<>> THEN Slash ELSE t

\* filepath.Base
Base(fpath) ==
  IF fpath = <<>> THEN Dot
  ELSE LET s == StripTrailingSlashes(fpath)
           t == SubSeq(s, LastSlash(s) + 1, Len(s))
       IN IF t = <<>> THEN Slash ELSE t

\* the "/"-separated elements of s, empty ones included
RECURSIVE Split(_)
Split(s) ==
  LET I == {i \in 1..Len(s) : s[i] = "/"}
  IN IF I = {} THEN <<s>>
     ELSE LET i == CHOOSE k \in I : \A j \in I : k <= j
          IN <<SubSeq(s, 1, i - 1)>> \o Split(SubSeq(s, i + 1, Len(s)))

\* the elements of segs joined by "/"
RECURSIVE JoinSegs(_)
JoinSegs(segs) ==
  IF segs = <<>> THEN <<>>
  ELSE IF Len(segs) = 1 THEN segs[1]
  ELSE segs[1] \o Slash \o JoinSegs(Tail(segs))

\* the element-by-element pass of filepath.Clean
RECURSIVE CleanSegs(_, _, _)
CleanSegs(segs, out, rooted) ==
  IF segs = <<>> THEN out
  ELSE LET h == Head(segs)
           rest == Tail(segs)
       IN IF h = <<>> \/ h = Dot THEN CleanSegs(rest, out, rooted)
          ELSE IF h = DotDot
          THEN IF out # <<>> /\ out[Len(out)] # DotDot
               THEN CleanSegs(rest, SubSeq(out, 1, Len(out) - 1), rooted)
               ELSE IF rooted THEN CleanSegs(rest, out, rooted)
               ELSE CleanSegs(rest, Append(out, DotDot), rooted)
          ELSE CleanSegs(rest, Append(out, h), rooted)

\* filepath.Clean
Clean(fpath) ==
  IF fpath = <<>> THEN Dot
  ELSE LET rooted == fpath[1] = "/"
           joined == JoinSegs(CleanSegs(Split(fpath), <<>>, rooted))
       IN IF rooted THEN Slash \o joined
          ELSE IF joined = <<>> THEN Dot ELSE joined

\* filepath.Join of two elements
Join(a, b) ==
  IF a = <<>> /\ b = <<>> THEN <<>>
  ELSE IF a = <<>> THEN Clean(b)
  ELSE IF b = <<>> THEN Clean(a)
  ELSE Clean(a \o Slash \o b)

\* ------------------------------------------------- net/http routing (main)
\* "/static/", the pattern of the file server
StaticPrefix == <<"/", "s", "t", "a", "t", "i", "c", "/">>

HasPrefix(s, pre) == Len(s) >= Len(pre) /\ SubSeq(s, 1, Len(pre)) = pre

\* cleanPath of net/http: the canonical form the mux redirects to
cleanPath(urlPath) ==
  IF urlPath = <<>> THEN Slash
  ELSE LET q == IF urlPath[1] # "/" THEN Slash \o urlPath ELSE urlPath
           np == Clean(q)
       IN IF q[Len(q)] = "/" /\ np # Slash THEN np \o Slash ELSE np

Methods == {"GET", "POST", "CONNECT"}
Senders == {"alice", "bob"}

\* the requests that the mux built by main hands to serveTemplate: pattern
\* "/" catches every path that starts with "/" and is not under "/static/";
\* a path that is not canonical is answered by a redirect, never by the
\* handler, except for CONNECT, whose path is not canonicalised
Routed(m, urlPath) ==
  /\ urlPath # <<>>
  /\ urlPath[1] = "/"
  /\ ~HasPrefix(urlPath, StaticPrefix)
  /\ (m = "CONNECT" \/ cleanPath(urlPath) = urlPath)

\* ------------------------------------------------------ template files
\* "templates/a", a page template
PageA == Templates \o Slash \o <<"a">>
\* "templates/index.html"
IndexPath == Templates \o Slash \o IndexHtml

\* the regular files the model lets exist; every other path is absent,
\* except the directories
TemplateFiles == {IndexPath, PageA, FooterPath, HeaderPath}
Directories == {Dot, Templates}

\* what a template file holds:
\*   "missing"    no such file
\*   "malformed"  the file does not parse as a template
\*   "ok"         parses, and executes against the page context
\*   "failEarly"  parses, and its execution fails before any output
\*   "failLate"   parses, and its execution fails after some output
PageKinds == {"missing", "malformed", "ok", "failEarly", "failLate"}
FragmentKinds == {"missing", "malformed", "ok"}

\* the template directories a server is started over: any page templates,
\* and at most one fragment that is other than "ok"
FileSystems ==
  {fs \in [TemplateFiles -> PageKinds] :
     /\ fs[FooterPath] \in FragmentKinds /\ fs[HeaderPath] \in FragmentKinds
     /\ fs[FooterPath] = "ok" \/ fs[HeaderPath] = "ok"}

FileKind(fs, f) ==
  IF f \in DOMAIN fs THEN fs[f]
  ELSE IF f \in Directories THEN "dir" ELSE "missing"

NoErr == [op |-> "nil", file |-> <<>>]

\* the first error of reading and parsing the files in order
RECURSIVE FirstError(_, _)
FirstError(filenames, fs) ==
  IF filenames = <<>> THEN NoErr
  ELSE LET f == Head(filenames)
           k == FileKind(fs, f)
       IN IF k = "missing" THEN [op |-> "open", file |-> f]
          ELSE IF k = "dir" THEN [op |-> "read", file |-> f]
          ELSE IF k = "malformed" THEN [op |-> "parse", file |-> f]
          ELSE FirstError(Tail(filenames), fs)

\* template.ParseFiles that looks at the page template only
ParseFilesFirstOnly(filenames, fs) ==
  LET e == FirstError(<<filenames[1]>>, fs)
  IN [tmpl |-> IF e = NoErr THEN FileKind(fs, filenames[1]) ELSE "nil", err |-> e]

\* template.ParseFiles: the template of the first file, or the first error
ParseFiles(filenames, fs) ==
  LET e == FirstError(filenames, fs)
  IN [tmpl |-> IF e = NoErr THEN FileKind(fs, filenames[1]) ELSE "nil", err |-> e]

\* ------------------------------------------------------ the page context
\* the package-level test user of code.go
testuser ==
  [FirstName |-> "This is the firstName of the test user", LastName |-> "lastName",
   UserName |-> "testUserName", UniqueID |-> 1]

NoContext ==
  [Logged |-> FALSE,
   User |-> [FirstName |-> "", LastName |-> "", UserName |-> "", UniqueID |-> 0]]

\* a page context that depends on who asks
PageContextBySender(m, urlPath, from) ==
  [Logged |-> from = "alice",
   User |-> IF from = "alice"
            THEN [FirstName |-> "Mario", LastName |-> "Rossi", UserName |-> "mario", UniqueID |-> 1]
            ELSE testuser]

\* the struct p of serveTemplate
PageContext(m, urlPath, from) ==
  [Logged |-> TRUE,
   User |-> [FirstName |-> "Mario", LastName |-> "Rossi", UserName |-> "mario", UniqueID |-> 1]]

\* ------------------------------------------------ http.ResponseWriter
NewResponse == [status |-> 0, body |-> <<>>]

\* WriteHeader: the first status sent stands, a later call changes nothing
WriteHeader(resp, code) ==
  IF resp.status # 0 THEN resp ELSE [resp EXCEPT !.status = code]

\* Write: sends status 200 first when no status was sent yet
Write(resp, chunk) ==
  LET r1 == WriteHeader(resp, 200)
  IN [r1 EXCEPT !.body = Append(@, chunk)]

ErrorChunk(e) == [kind |-> "error", user |-> "", err |-> e]
PageChunk(ctx) == [kind |-> "page", user |-> ctx.User.FirstName, err |-> NoErr]

\* http.Error
HttpError(resp, e, code) == Write(WriteHeader(resp, code), ErrorChunk(e))

\* ------------------------------------------------------------ the store
Tables == {"users", "questions", "answers", "tags", "badges"}

\* sqlStmt, sqlStmt2, ... sqlStmt5 of createDatabase, one statement each
CreateStmts ==
  << [op |-> "create", table |-> "users"],
     [op |-> "create", table |-> "questions"],
     [op |-> "create", table |-> "answers"],
     [op |-> "create", table |-> "tags"],
     [op |-> "create", table |-> "badges"] >>

\* sqlStmt, sqlStmt2, ... sqlStmt5 of createSampleData, one statement each
InsertStmts ==
  << [op |-> "insert", table |-> "users"],
     [op |-> "insert", table |-> "questions"],
     [op |-> "insert", table |-> "answers"],
     [op |-> "insert", table |-> "tags"],
     [op |-> "insert", table |-> "badges"] >>

NoTables == [t \in {} |-> 0]

\* one SQL statement against the tables rws (table name -> number of rows)
ExecStmt(rws, stmt) ==
  IF stmt.op = "create"
  THEN IF stmt.table \in DOMAIN rws
       THEN [rows |-> rws, err |-> TRUE]
       ELSE [rows |-> rws @@ (stmt.table :> 0), err |-> FALSE]
  ELSE IF stmt.table \in DOMAIN rws
       THEN [rows |-> [rws EXCEPT ![stmt.table] = @ + 1], err |-> FALSE]
       ELSE [rows |-> rws, err |-> TRUE]

\* db.Exec(query, args...) of database/sql over the sqlite3 driver: the
\* connection is opened here (sql.Open is lazy), which creates the store
\* file; only query is SQL, args are values for its placeholders, and the
\* statements of this program have no placeholder, so args are left unused.
\* ioErr: the connection cannot be opened or the store cannot be written.
DBExec(exists, rws, query, args, ioErr) ==
  IF ioErr THEN [exists |-> exists, rows |-> rws, err |-> TRUE]
  ELSE LET r == ExecStmt(rws, query)
       IN [exists |-> TRUE, rows |-> r.rows, err |-> r.err]

\* ----------------------------------------------------------------- state
Slots == 1..NumReqs

VARIABLES
  \* main: position, the store file, its tables, the lines printed
  mainpc, storeExists, rows, stdout,
  \* process starts so far; whether the environment ever made sql.Open or
  \* the store fail
  starts, faulted,
  \* the template directory
  files,
  \* per request in flight: position, r.Method, r.URL.Path, who sent it,
  \* and the locals of serveTemplate: templateName, templatePath, tmpl, p,
  \* err, and w
  pc, method, path, sender, templateName, templatePath, tmpl, p, err, w

bootVars == <<mainpc, storeExists, rows, stdout, starts, faulted>>
reqVars == <<pc, method, path, sender, templateName, templatePath, tmpl, p, err, w>>
vars == <<bootVars, files, reqVars>>

AllOk == [f \in TemplateFiles |-> "ok"]

\* no request in flight
ReqIdle ==
  /\ pc = [r \in Slots |-> "idle"]
  /\ method = [r \in Slots |-> ""]
  /\ path = [r \in Slots |-> <<>>]
  /\ sender = [r \in Slots |-> ""]
  /\ templateName = [r \in Slots |-> <<>>]
  /\ templatePath = [r \in Slots |-> <<>>]
  /\ tmpl = [r \in Slots |-> "nil"]
  /\ p = [r \in Slots |-> NoContext]
  /\ err = [r \in Slots |-> NoErr]
  /\ w = [r \in Slots |-> NewResponse]

\* the process after a first start without faults, listening
BootListening ==
  /\ mainpc = "listening"
  /\ storeExists = TRUE
  /\ rows = ("users" :> 1)
  /\ stdout = <<"Click on http://localhost:8080">>
  /\ starts = 1
  /\ faulted = FALSE

\* ------------------------------------------------------------- bootstrap
\* createDatabase
CreateDatabase ==
  /\ mainpc = "createDatabase"
  \* openErr: sql.Open returns an error; ioErr: db.Exec fails on the store
  /\ \E openErr \in BOOLEAN, ioErr \in BOOLEAN :
       IF storeExists
       THEN /\ ~openErr /\ ~ioErr
            /\ mainpc' = "createSampleData"
            /\ UNCHANGED <<storeExists, rows, stdout, faulted>>
       ELSE IF openErr
       THEN \* err is printed, db is nil, and db.Exec dereferences it
            /\ ~ioErr
            /\ stdout' = Append(stdout, "sql.Open error")
            /\ mainpc' = "panic"
            /\ faulted' = TRUE
            /\ UNCHANGED <<storeExists, rows>>
       ELSE LET res == DBExec(storeExists, rows, CreateStmts[1], Tail(CreateStmts), ioErr)
            IN /\ storeExists' = res.exists
               /\ rows' = res.rows
               /\ stdout' = IF res.err THEN Append(stdout, "db.Exec error") ELSE stdout
               /\ faulted' = (faulted \/ ioErr)
               /\ mainpc' = "createSampleData"
  /\ UNCHANGED <<starts, files, reqVars>>

\* createSampleData
CreateSampleData ==
  /\ mainpc = "createSampleData"
  /\ \E openErr \in BOOLEAN, ioErr \in BOOLEAN :
       IF openErr
       THEN /\ ~ioErr
            /\ stdout' = Append(stdout, "sql.Open error")
            /\ mainpc' = "panic"
            /\ faulted' = TRUE
            /\ UNCHANGED <<storeExists, rows>>
       ELSE LET res == DBExec(storeExists, rows, InsertStmts[1], Tail(InsertStmts), ioErr)
            IN /\ storeExists' = res.exists
               /\ rows' = res.rows
               /\ stdout' = IF res.err THEN Append(stdout, "db.Exec error") ELSE stdout
               /\ faulted' = (faulted \/ ioErr)
               /\ mainpc' = "listen"
  /\ UNCHANGED <<starts, files, reqVars>>

\* the rest of main: the routes are registered, the address is printed and
\* ListenAndServe either serves or fails to bind, which log.Fatal makes fatal
Listen ==
  /\ mainpc = "listen"
  /\ \E bindErr \in BOOLEAN :
       /\ stdout' = Append(stdout, "Click on http://localhost:8080")
       /\ mainpc' = IF bindErr THEN "exited" ELSE "listening"
  /\ UNCHANGED <<storeExists, rows, starts, faulted, files, reqVars>>

\* the process is stopped (or has ended) and is started again
Restart ==
  /\ mainpc \in {"listening", "exited", "panic"}
  /\ starts < MaxStarts
  /\ starts' = starts + 1
  /\ mainpc' = "createDatabase"
  /\ stdout' = <<>>
  /\ UNCHANGED <<storeExists, rows, faulted, files, reqVars>>

\* ---------------------------------------------------------- serveTemplate
\* templateName: the base of the path, "index.html" when that is "/"
ResolveName(urlPath) ==
  LET n == Base(urlPath)
  IN IF n = Slash THEN IndexHtml ELSE n

\* the handler is entered: p, templateName and templatePath are set
Request(r, m, urlPath, from) ==
  /\ mainpc = "listening"
  /\ pc[r] \in {"idle", "done"}
  /\ Routed(m, urlPath)
  /\ method' = [method EXCEPT ![r] = m]
  /\ path' = [path EXCEPT ![r] = urlPath]
  /\ sender' = [sender EXCEPT ![r] = from]
  /\ p' = [p EXCEPT ![r] = PageContext(m, urlPath, from)]
  /\ templateName' = [templateName EXCEPT ![r] = ResolveName(urlPath)]
  /\ templatePath' = [templatePath EXCEPT ![r] = Join(Templates, ResolveName(urlPath))]
  /\ tmpl' = [tmpl EXCEPT ![r] = "nil"]
  /\ err' = [err EXCEPT ![r] = NoErr]
  /\ w' = [w EXCEPT ![r] = NewResponse]
  /\ pc' = [pc EXCEPT ![r] = "parse"]
  /\ UNCHANGED <<bootVars, files>>

\* the three files as parsed by an earlier request for the same template
\* path that is still around, when there is one
LoadTemplatesCached(r) ==
  LET Q == {q \in Slots \ {r} : templatePath[q] = templatePath[r] /\ pc[q] \in {"execute", "check", "done"}}
  IN IF Q # {}
     THEN LET q == CHOOSE x \in Q : TRUE IN [tmpl |-> tmpl[q], err |-> err[q]]
     ELSE ParseFiles(<<templatePath[r], FooterPath, HeaderPath>>, files)

\* the three files are read and parsed, as they are now
LoadTemplates(r) ==
  ParseFiles(<<templatePath[r], FooterPath, HeaderPath>>, files)

\* template.ParseFiles and the check of its error
Parse(r) ==
  /\ pc[r] = "parse"
  /\ LET res == LoadTemplates(r)
     IN /\ tmpl' = [tmpl EXCEPT ![r] = res.tmpl]
        /\ err' = [err EXCEPT ![r] = res.err]
        /\ IF res.err # NoErr
           THEN /\ w' = [w EXCEPT ![r] = HttpError(w[r], res.err, 500)]
                /\ pc' = [pc EXCEPT ![r] = "done"]
           ELSE /\ w' = w
                /\ pc' = [pc EXCEPT ![r] = "execute"]
  /\ UNCHANGED <<bootVars, files, method, path, sender, templateName, templatePath, p>>

\* the template of whichever request is executing
ExecTemplateShared(r) ==
  LET Q == {q \in Slots \ {r} : pc[q] = "execute"}
  IN IF Q # {} THEN tmpl[CHOOSE q \in Q : TRUE] ELSE tmpl[r]

\* the template this request parsed
ExecTemplate(r) == tmpl[r]

\* tmpl.Execute(w, p): output goes to w as it is produced
Execute(r) ==
  /\ pc[r] = "execute"
  /\ LET t == ExecTemplate(r)
         failure == [op |-> "exec", file |-> templatePath[r]]
     IN /\ w' = [w EXCEPT ![r] = IF t = "failEarly" THEN @ ELSE Write(@, PageChunk(p[r]))]
        /\ err' = [err EXCEPT ![r] = IF t = "ok" THEN NoErr ELSE failure]
  /\ pc' = [pc EXCEPT ![r] = "check"]
  /\ UNCHANGED <<bootVars, files, method, path, sender, templateName, templatePath, tmpl, p>>

\* the check of the error of Execute
CheckExecErr(r) ==
  /\ pc[r] = "check"
  /\ w' = [w EXCEPT ![r] = IF err[r] # NoErr THEN HttpError(@, err[r], 500) ELSE @]
  /\ pc' = [pc EXCEPT ![r] = "done"]
  /\ UNCHANGED <<bootVars, files, method, path, sender, templateName, templatePath, tmpl, p, err>>

\* the files that are edited while the server runs
EditableFiles == {PageA, FooterPath}

\* somebody edits the template directory: file f now holds kind k
ChangeFile(f, k) ==
  /\ mainpc = "listening"
  /\ f \in EditableFiles
  /\ k # files[f]
  /\ f \in {FooterPath, HeaderPath} => k \in FragmentKinds
  /\ files' = [files EXCEPT ![f] = k]
  /\ UNCHANGED <<bootVars, reqVars>>

\* -------------------------------------------------------- specifications
\* the requests of SpecServe: method, path, sender
ServeRequests ==
  { <<"GET", Slash, "alice">>,
    <<"GET", <<"/", "a">>, "alice">>,
    <<"GET", <<"/", "a">>, "bob">>,
    <<"POST", <<"/", "a", "/">>, "alice">>,
    <<"CONNECT", <<"/", ".", ".">>, "bob">> }

\* the requests of SpecFiles
FileRequests ==
  { <<"GET", Slash, "alice">>,
    <<"GET", <<"/", "a">>, "bob">> }

\* bootstrap: process starts, beginning with no store file
InitBoot ==
  /\ mainpc = "createDatabase"
  /\ storeExists = FALSE
  /\ rows = NoTables
  /\ stdout = <<>>
  /\ starts = 1
  /\ faulted = FALSE
  /\ files = AllOk
  /\ ReqIdle

NextBoot == CreateDatabase \/ CreateSampleData \/ Listen \/ Restart

SpecBoot == InitBoot /\ [][NextBoot]_vars

\* name resolution: one request, any path
InitPath == BootListening /\ files = AllOk /\ ReqIdle

NextPath == \E m \in Methods, u \in Paths, s \in Senders : Request(1, m, u, s)

SpecPath == InitPath /\ [][NextPath]_vars

\* concurrent requests over a template directory that does not change
InitServe == BootListening /\ files \in FileSystems /\ ReqIdle

\* the steps of the handler after its entry
Handle(r) == Parse(r) \/ Execute(r) \/ CheckExecErr(r)

NextServe ==
  \E r \in Slots :
    \/ \E q \in ServeRequests : Request(r, q[1], q[2], q[3])
    \/ Handle(r)

SpecServe == InitServe /\ [][NextServe]_vars

\* concurrent requests while the template directory is edited
InitFiles == BootListening /\ files = AllOk /\ ReqIdle

NextFiles ==
  \/ \E r \in Slots :
       \/ \E q \in FileRequests : Request(r, q[1], q[2], q[3])
       \/ Handle(r)
  \/ \E f \in TemplateFiles, k \in PageKinds : ChangeFile(f, k)

SpecFiles == InitFiles /\ [][NextFiles]_vars

\* ------------------------------------------------------------ properties
Entered(r) == pc[r] # "idle"

NoSlashIn(s) == \A i \in 1..Len(s) : s[i] # "/"
OnlySlashes(s) == \A i \in 1..Len(s) : s[i] = "/"

\* the text of s after its last "/" (all of s when it has none)
AfterLastSlash(s) ==
  LET I == {i \in 0..Len(s) : (i = 0 \/ s[i] = "/") /\ \A j \in (i + 1)..Len(s) : s[j] # "/"}
  IN SubSeq(s, (CHOOSE i \in I : TRUE) + 1, Len(s))

\* n is the last element of s once the "/" that end s are set aside
IsLastElement(n, s) ==
  \E i \in 1..Len(s), j \in 1..Len(s) :
    /\ i <= j
    /\ n = SubSeq(s, i, j)
    /\ NoSlashIn(n)
    /\ i = 1 \/ s[i - 1] = "/"
    /\ \A k \in (j + 1)..Len(s) : s[k] = "/"

\* C1 as stated: the template name of every request the handler was
\* entered for is "index.html" when the path is exactly "/", and otherwise
\* the text after the last "/" of the path.
C1_NameIsTextAfterLastSlash ==
  \A r \in Slots :
    Entered(r) =>
      templateName[r] = IF path[r] = Slash THEN IndexHtml ELSE AfterLastSlash(path[r])

\* C1 as amended: the template name is "index.html" when the path consists
\* of "/" characters only, and otherwise the last element of the path once
\* the "/" characters that end the path are set aside.
C1_NameIsLastElement ==
  \A r \in Slots :
    Entered(r) =>
      /\ path[r] # <<>>
      /\ OnlySlashes(path[r]) => templateName[r] = IndexHtml
      /\ ~OnlySlashes(path[r]) => IsLastElement(templateName[r], path[r])

\* a request for a path that ends in "/" and is not the root was resolved
C1_TrailingSlashResolved ==
  \E r \in Slots :
    /\ Entered(r)
    /\ path[r] = <<"/", "a", "/">>
    /\ templateName[r] = <<"a">>

\* C10: the page template path of every request is "templates/<name>" with
\* <name> free of "/" and neither "." nor "..", a direct child of the
\* template directory.
C10_PageTemplateIsChildOfTemplates ==
  \A r \in Slots :
    Entered(r) =>
      LET pre == Templates \o Slash
          tp == templatePath[r]
          name == SubSeq(tp, Len(pre) + 1, Len(tp))
      IN /\ Len(tp) > Len(pre)
         /\ SubSeq(tp, 1, Len(pre)) = pre
         /\ NoSlashIn(name)
         /\ name # Dot
         /\ name # DotDot

\* f cannot be read as a template: it is no regular file or does not parse
Unparseable(f) == f \notin DOMAIN files \/ files[f] \in {"missing", "malformed"}

PastParse(r) == pc[r] \in {"execute", "check", "done"}

\* C5: over a template directory that does not change, a request past its
\* parse step for which one of the three files is missing or does not parse
\* has ended with status 500 and a body that is the error text alone; no
\* template was kept, none was executed, no page content was written.
C5_ParseFailureIs500 ==
  \A r \in Slots :
    (PastParse(r) /\ \E f \in {templatePath[r], FooterPath, HeaderPath} : Unparseable(f)) =>
      /\ pc[r] = "done"
      /\ tmpl[r] = "nil"
      /\ err[r].op \in {"open", "read", "parse"}
      /\ Unparseable(err[r].file)
      /\ w[r] = [status |-> 500, body |-> <<ErrorChunk(err[r])>>]

\* a request whose page template is fine and whose footer is missing ended
C5_FooterMissingServed ==
  \E r \in Slots :
    /\ pc[r] = "done"
    /\ ~Unparseable(templatePath[r])
    /\ files[FooterPath] = "missing"
    /\ w[r].status = 500

\* C6: every request whose template execution failed has ended with
\* status 500.
C6_ExecFailureIs500 ==
  \A r \in Slots :
    (pc[r] = "done" /\ err[r].op = "exec") => w[r].status = 500

Mario == [FirstName |-> "Mario", LastName |-> "Rossi", UserName |-> "mario", UniqueID |-> 1]

\* C7: the page context of every request is the logged-in flag set and the
\* literal user Mario, whatever the path, the method, the sender, the other
\* requests and the store; page content is rendered with that user.
C7_ContextIsFixed ==
  \A r \in Slots :
    Entered(r) =>
      /\ p[r] = [Logged |-> TRUE, User |-> Mario]
      /\ \A i \in 1..Len(w[r].body) :
           w[r].body[i].kind = "page" => w[r].body[i].user = "Mario"

\* two requests that differ in their sender only were both rendered
C7_TwoSendersRendered ==
  \E r1 \in Slots, r2 \in Slots :
    /\ sender[r1] = "alice" /\ sender[r2] = "bob"
    /\ method[r1] = method[r2] /\ path[r1] = path[r2]
    /\ pc[r1] = "done" /\ pc[r2] = "done"
    /\ w[r1].status = 200 /\ w[r2].status = 200
    /\ w[r1] = w[r2]

\* the response to a request for urlPath that is served with no other
\* request around, over the template directory fs
ServedAlone(urlPath, fs) ==
  LET tp == Join(Templates, ResolveName(urlPath))
      res == ParseFiles(<<tp, FooterPath, HeaderPath>>, fs)
      page == PageChunk([Logged |-> TRUE, User |-> Mario])
      failure == [op |-> "exec", file |-> tp]
  IN IF res.err # NoErr THEN HttpError(NewResponse, res.err, 500)
     ELSE IF res.tmpl = "ok" THEN Write(NewResponse, page)
     ELSE IF res.tmpl = "failEarly" THEN HttpError(NewResponse, failure, 500)
     ELSE HttpError(Write(NewResponse, page), failure, 500)

\* C8: over a template directory that does not change, every request that
\* has ended, however its steps were interleaved with those of the other
\* requests, has the response it would have had when served alone.
C8_ResponseAsIfAlone ==
  \A r \in Slots :
    pc[r] = "done" => w[r] = ServedAlone(path[r], files)

\* two requests for different page templates have both ended, one with
\* status 500 and the error text, the other with status 200 and its page
C8_FailedBesideRendered ==
  \E r1 \in Slots, r2 \in Slots :
    /\ pc[r1] = "done" /\ w[r1].status = 500 /\ Len(w[r1].body) = 1
    /\ pc[r2] = "done" /\ w[r2].status = 200 /\ Len(w[r2].body) = 1
    /\ templatePath[r1] # templatePath[r2]

\* C9: the parse step of every request is decided by the template files as
\* they are at that step: with one of the three missing or malformed the
\* request ends with status 500, otherwise it goes on to execute the page
\* template as it is on disk now.
C9_ParseReadsFilesAfresh ==
  [][\A r \in Slots :
       (pc[r] = "parse" /\ pc'[r] # "parse") =>
         IF \E f \in {templatePath[r], FooterPath, HeaderPath} : Unparseable(f)
         THEN pc'[r] = "done" /\ w'[r].status = 500 /\ tmpl'[r] = "nil"
         ELSE pc'[r] = "execute" /\ tmpl'[r] = files[templatePath[r]]]_vars

\* a path that gave 500 because its file was missing renders for a later
\* request, the earlier response still at hand
C9_MissingThenRendered ==
  \E r1 \in Slots, r2 \in Slots :
    /\ path[r1] = path[r2]
    /\ pc[r1] = "done" /\ w[r1].status = 500 /\ err[r1].op = "open"
    /\ err[r1].file = templatePath[r1]
    /\ pc[r2] = "done" /\ w[r2] = [status |-> 200, body |-> <<PageChunk(p[r2])>>]

\* C2: when the first start, made with no store file and met by no fault of
\* the environment, has reached the listener, the store file exists and
\* holds the five tables.
C2_FiveTablesWhenListening ==
  (mainpc = "listening" /\ starts = 1 /\ ~faulted) =>
    storeExists /\ DOMAIN rows = Tables

\* C3: once the bootstrap of the n-th start is through, no fault of the
\* environment having occurred, each of the five tables holds n sample rows.
C3_OneRowPerTablePerStart ==
  (mainpc \in {"listen", "listening"} /\ ~faulted) =>
    \A t \in Tables : t \in DOMAIN rows /\ rows[t] = starts

====
